---- MODULE Spec2Model ----
(***************************************************************************)
(* Weather pipeline: line parser, ingestion loader, statistics aggregator. *)
(* Storage is the relational database behind the SQLAlchemy session: the   *)
(* committed tables plus the rows flushed in the open transaction.         *)
(***************************************************************************)
EXTENDS Integers, Sequences, FiniteSets, TLC

\* ---------------------------------------------------------------- bounds
\* number of jobs (loader runs, aggregator runs, direct inserts) in a behaviour
MaxJobs == 2
\* number of unexpected storage/IO errors injected in a behaviour
MaxFaults == 1
\* number of lines of a station file
MaxLines == 2
\* number of lines of the longer station file when two loader runs share it
MaxFileLines == 3

\* ------------------------------------------------------ values and text
\* Python None / SQL NULL is the empty tuple, a value v is <<v>>
NoneV == << >>

Some(v) == <<v>>

IsNone(x) == x = NoneV

\* characters of an input line: a run of digits with its sign (an integer
\* literal), a tab, a blank, or any other text
Num(n) == [k |-> "num", v |-> n]

TAB == [k |-> "tab", v |-> 0]

SP == [k |-> "sp", v |-> 0]

TXT == [k |-> "txt", v |-> 0]

IsWs(c) == c.k \in {"tab", "sp"}

RECURSIVE LStrip(_)
LStrip(s) == IF s # << >> /\ IsWs(Head(s)) THEN LStrip(Tail(s)) ELSE s

RECURSIVE RStrip(_)
RStrip(s) ==
  IF s # << >> /\ IsWs(s[Len(s)]) THEN RStrip(SubSeq(s, 1, Len(s) - 1)) ELSE s

\* str.strip()
Strip(s) == RStrip(LStrip(s))

\* str.split(): the fields are the runs of characters that are not whitespace
RECURSIVE SplitWs(_)
SplitWs(s) ==
  LET t == LStrip(s)
  IN IF t = << >> THEN << >>
     ELSE LET ends == {i \in 1..Len(t) : IsWs(t[i])} \cup {Len(t) + 1}
              n == CHOOSE i \in ends : \A j \in ends : i <= j
          IN <<SubSeq(t, 1, n - 1)>> \o SplitWs(SubSeq(t, n, Len(t)))

\* str.split("\t"): always at least one field
RECURSIVE SplitTab(_)
SplitTab(s) ==
  IF \E i \in 1..Len(s) : s[i] = TAB
  THEN LET i == CHOOSE j \in 1..Len(s) :
                  s[j] = TAB /\ \A h \in 1..(j - 1) : s[h] # TAB
       IN <<SubSeq(s, 1, i - 1)>> \o SplitTab(SubSeq(s, i + 1, Len(s)))
  ELSE <<s>>

IsLeap(y) == (y % 4 = 0 /\ y % 100 # 0) \/ y % 400 = 0

DaysIn(y, m) ==
  IF m = 2 THEN (IF IsLeap(y) THEN 29 ELSE 28)
  ELSE IF m \in {4, 6, 9, 11} THEN 30 ELSE 31

\* datetime.strptime(date_str, "%Y%m%d").date(): NoneV stands for ValueError
Strptime(field) ==
  IF Len(field) = 1 /\ field[1].k = "num" /\ field[1].v > 0
  THEN LET n == field[1].v
           y == n \div 10000
           m == (n \div 100) % 100
           d == n % 100
       IN IF y \in 1..9999 /\ m \in 1..12 /\ d \in 1..DaysIn(y, m)
          THEN Some([year |-> y, month |-> m, day |-> d])
          ELSE NoneV
  ELSE NoneV

\* int(value_str.strip()): NoneV stands for ValueError
IntOf(field) ==
  LET f == Strip(field)
  IN IF Len(f) = 1 /\ f[1].k = "num" THEN Some(f[1].v) ELSE NoneV

MISSING == 0 - 9999

\* a sentinel test that takes every value up to the sentinel for missing
parse_value_range_check(value_str) ==
  LET value == IntOf(value_str)[1]
  IN IF value <= MISSING THEN NoneV ELSE Some(value)

\* parse_value: the sentinel becomes None, any other integer is kept
parse_value(value_str) ==
  LET value == IntOf(value_str)[1]
  IN IF value = MISSING THEN NoneV ELSE Some(value)

\* parse_weather_line: [ok |-> FALSE] stands for ValueError
parse_weather_line(line, station_id) ==
  LET parts == SplitTab(Strip(line))
  IN IF Len(parts) # 4 THEN [ok |-> FALSE, err |-> Len(parts)]
     ELSE IF IsNone(Strptime(parts[1])) THEN [ok |-> FALSE, err |-> 0]
     ELSE IF \E i \in 2..4 : IsNone(IntOf(parts[i])) THEN [ok |-> FALSE, err |-> 0]
     ELSE [ok |-> TRUE,
           station_id |-> station_id,
           date |-> Strptime(parts[1])[1],
           max_temp |-> parse_value(parts[2]),
           min_temp |-> parse_value(parts[3]),
           precipitation |-> parse_value(parts[4])]

\* ------------------------------------------------------------- inputs
\* the lines a station file may hold
LineA == <<Num(19850101), TAB, SP, Num(0 - 22), TAB, SP, Num(0 - 128), TAB, SP, Num(94)>>

LineB == <<Num(19850102), TAB, Num(0 - 122), TAB, Num(MISSING), TAB, Num(0)>>

LineOld == <<Num(18991231), TAB, Num(50), TAB, Num(0 - 50), TAB, Num(100)>>

LineBad == <<TXT, TAB, TXT>>

LineBlank == <<SP>>

Lines == {LineA, LineB, LineOld, LineBad, LineBlank}

\* station identifiers (the file stems), compared as the names compare
Stations == {72, 187}

FilesOf(n) == UNION {[1..k -> Lines] : k \in 0..n}

\* a directory holds one file per station, MaxLines lines in all
Directories ==
  {d \in [Stations -> FilesOf(MaxLines)] :
     \A a, b \in Stations : a # b => Len(d[a]) + Len(d[b]) <= MaxLines}

\* rows a caller may add and commit itself, as the model tests do
DirectRows ==
  {[station_id |-> 72, date |-> [year |-> 1985, month |-> 1, day |-> 1],
    max_temp |-> Some(50), min_temp |-> Some(0 - 50), precipitation |-> NoneV]}

\* ------------------------------------------------------------ storage
VARIABLES
  dir,            \* data_dir: station -> the lines of its file
  records,        \* committed rows of weather_records
  stats,          \* committed rows of weather_stats
  pending,        \* rows flushed in the loader session's open transaction
  job,            \* "idle" | "ingest" | "agg"
  jobs,           \* jobs started so far
  faults,         \* unexpected errors raised so far
  fileIdx,        \* position in weather_files
  lineIdx,        \* line_num of the next line of the current file
  inserted, skipped, failed,
  total_inserted, total_skipped, total_failed,
  station_years,  \* the aggregator's (station, year) pairs, in order
  aggIdx,         \* position in station_years
  stats_inserted, stats_updated,
  aggNew,         \* WeatherStats objects added to the session, not yet flushed
  aggDirty,       \* persistent WeatherStats rows with changed attributes
  fileLog,        \* history: one entry per file the current run has left
  runLog,         \* history: one entry per finished loader run
  aggLog,         \* history: one entry per finished aggregator run
  attempt,        \* history: the row of the last direct insert
  response,       \* the last request of the query service and what it returned
  parsed,         \* the last line given to the parser alone and what it returned
  session,        \* the scoped session of get_session: where it is and what it has done
  loaders,        \* the loader runs that share the database, each with its session
  lastStep        \* history: what the last step did

loaderVars == <<pending, fileIdx, lineIdx, inserted, skipped, failed,
                total_inserted, total_skipped, total_failed, fileLog>>

aggVars == <<station_years, aggIdx, stats_inserted, stats_updated, aggNew, aggDirty>>

vars == <<dir, records, stats, job, jobs, faults, loaderVars, aggVars,
          runLog, aggLog, attempt, response, parsed, session,
          loaders, lastStep>>

\* the loader runs started side by side
Loaders == {1, 2}

\* the databases DATABASE_URL may name: the sqlite file of the default, which
\* has one write lock for the whole database, or a server, which makes an
\* INSERT wait for the rows of its own key only
Engines == {"sqlite", "server"}

\* a loader run that has not begun; db is the engine its session is bound to
IdleLoader ==
  [pc |-> "idle", db |-> "sqlite", fileIdx |-> 1, lineIdx |-> 1, pending |-> {},
   inserted |-> 0, skipped |-> 0, failed |-> 0,
   total_inserted |-> 0, total_skipped |-> 0, total_failed |-> 0]

NoLoaders == [i \in Loaders |-> IdleLoader]

\* no scoped session has been asked for yet
NoSession ==
  [pc |-> "none", block |-> "none", log |-> << >>, exc |-> FALSE,
   raised |-> FALSE, start |-> {}, own |-> {}]

Key(r) == <<r.station_id, r.date>>

\* what the session sees: committed rows and its own flushed rows
View == records \cup pending

\* next autoincrement id of a table
NextId(rows) ==
  IF rows = {} THEN 1
  ELSE 1 + (CHOOSE i \in {r.id : r \in rows} : \A r \in rows : r.id <= i)

\* WeatherRecord(**data)
WeatherRecord(data, id) ==
  [id |-> id, station_id |-> data.station_id, date |-> data.date,
   max_temp |-> data.max_temp, min_temp |-> data.min_temp,
   precipitation |-> data.precipitation]

\* the table without its unique constraint
UqStationDate_absent(rows, row) == TRUE

\* uq_station_date: may this row be inserted beside these rows?
UqStationDate(rows, row) == \A r \in rows : Key(r) # Key(row)

\* sorted(data_dir.glob("*.txt"))
RECURSIVE SortedSeq(_)
SortedSeq(S) ==
  IF S = {} THEN << >>
  ELSE LET m == CHOOSE x \in S : \A y \in S : x <= y
       IN <<m>> \o SortedSeq(S \ {m})

weather_files == SortedSeq(DOMAIN dir)

station_file == dir[weather_files[fileIdx]]

IsBlank(line) == Strip(line) = << >>

\* session.rollback(): the open transaction, every flushed row of it, is undone
session_rollback(p) == {}

\* a commit that keeps the rows of its own transaction only
session_commit_own_rows(committed, p) == p

\* session.commit(): the flushed rows become committed rows
session_commit(committed, p) == committed \cup p

\* the line loop with a ValueError handler that rolls the session back
ingest_line_rollback_on_bad(line, station_id, committed, s) ==
  LET data == parse_weather_line(line, station_id)
  IN IF ~data.ok
     THEN [s EXCEPT !.pending = session_rollback(@), !.failed = @ + 1]
     ELSE LET record == WeatherRecord(data, NextId(committed \cup s.pending))
          IN IF UqStationDate(committed \cup s.pending, record)
             THEN [s EXCEPT !.pending = @ \cup {record}, !.inserted = @ + 1]
             ELSE [s EXCEPT !.pending = session_rollback(@), !.skipped = @ + 1]

\* the line loop with an IntegrityError handler that counts nothing
ingest_line_skip_uncounted(line, station_id, committed, s) ==
  LET data == parse_weather_line(line, station_id)
  IN IF ~data.ok
     THEN [s EXCEPT !.failed = @ + 1]
     ELSE LET record == WeatherRecord(data, NextId(committed \cup s.pending))
          IN IF UqStationDate(committed \cup s.pending, record)
             THEN [s EXCEPT !.pending = @ \cup {record}, !.inserted = @ + 1]
             ELSE [s EXCEPT !.pending = session_rollback(@)]

\* the body of the line loop of ingest_weather_file for one non-blank line;
\* s holds the session's flushed rows and the three per-file counters
ingest_line(line, station_id, committed, s) ==
  LET data == parse_weather_line(line, station_id)
  IN IF ~data.ok
     THEN [s EXCEPT !.failed = @ + 1]
     ELSE LET record == WeatherRecord(data, NextId(committed \cup s.pending))
          IN IF UqStationDate(committed \cup s.pending, record)
             THEN [s EXCEPT !.pending = @ \cup {record}, !.inserted = @ + 1]
             ELSE [s EXCEPT !.pending = session_rollback(@), !.skipped = @ + 1]

\* non-blank lines among the first n lines of a file
NonBlank(f, n) == Cardinality({i \in 1..n : ~IsBlank(f[i])})

InFile == job = "ingest" /\ fileIdx <= Len(weather_files)

\* ---------------------------------------------------------------- loader
\* ingest_all_weather_data up to the file loop
StartIngest ==
  /\ job = "idle" /\ jobs < MaxJobs
  /\ job' = "ingest" /\ jobs' = jobs + 1
  /\ fileIdx' = 1 /\ lineIdx' = 1
  /\ inserted' = 0 /\ skipped' = 0 /\ failed' = 0
  /\ total_inserted' = 0 /\ total_skipped' = 0 /\ total_failed' = 0
  /\ pending' = {} /\ fileLog' = << >>
  /\ lastStep' = "start"
  /\ UNCHANGED <<loaders, session, parsed, response, dir, records, stats, faults, runLog, aggVars, aggLog, attempt>>

\* one turn of the line loop of ingest_weather_file
IngestLine ==
  /\ InFile /\ lineIdx <= Len(station_file)
  /\ LET line == station_file[lineIdx]
         s == [pending |-> pending, inserted |-> inserted,
               skipped |-> skipped, failed |-> failed]
         t == IF IsBlank(line) THEN s
              ELSE ingest_line(line, weather_files[fileIdx], records, s)
     IN /\ pending' = t.pending
        /\ inserted' = t.inserted /\ skipped' = t.skipped /\ failed' = t.failed
        /\ lastStep' = IF IsBlank(line) THEN "blank"
                       ELSE IF t.failed # failed THEN "failed"
                       ELSE IF t.skipped # skipped THEN "skipped"
                       ELSE "inserted"
  /\ lineIdx' = lineIdx + 1
  /\ UNCHANGED <<loaders, session, parsed, response, dir, records, stats, job, jobs, faults, fileIdx,
                 total_inserted, total_skipped, total_failed, fileLog, runLog,
                 aggVars, aggLog, attempt>>

FileEntry(outcome) ==
  [station |-> weather_files[fileIdx], outcome |-> outcome,
   inserted |-> inserted, skipped |-> skipped, failed |-> failed,
   seen |-> NonBlank(station_file, lineIdx - 1),
   flushed |-> pending, before |-> records]

NextFile ==
  /\ fileIdx' = fileIdx + 1 /\ lineIdx' = 1
  /\ inserted' = 0 /\ skipped' = 0 /\ failed' = 0

\* ingest_weather_file returns: the totals are accumulated and the file committed
FinishFile ==
  /\ InFile /\ lineIdx > Len(station_file)
  /\ total_inserted' = total_inserted + inserted
  /\ total_skipped' = total_skipped + skipped
  /\ total_failed' = total_failed + failed
  /\ records' = session_commit(records, pending)
  /\ pending' = {}
  /\ fileLog' = Append(fileLog, FileEntry("ok"))
  /\ NextFile
  /\ lastStep' = "commit"
  /\ UNCHANGED <<loaders, session, parsed, response, dir, stats, job, jobs, faults, runLog, aggVars, aggLog, attempt>>

\* an unexpected error inside ingest_weather_file (open, read, flush or
\* close): it is re-raised, and the file loop rolls back and goes on with the
\* next file
FileError ==
  /\ InFile /\ faults < MaxFaults
  /\ faults' = faults + 1
  /\ pending' = session_rollback(pending)
  /\ fileLog' = Append(fileLog, FileEntry("error"))
  /\ NextFile
  /\ lastStep' = "file_error"
  /\ UNCHANGED <<loaders, session, parsed, response, dir, records, stats, job, jobs, total_inserted,
                 total_skipped, total_failed, runLog, aggVars, aggLog, attempt>>

\* an unexpected error of session.commit() after a file: the totals have
\* been accumulated, the transaction is rolled back
CommitError ==
  /\ InFile /\ lineIdx > Len(station_file) /\ faults < MaxFaults
  /\ faults' = faults + 1
  /\ total_inserted' = total_inserted + inserted
  /\ total_skipped' = total_skipped + skipped
  /\ total_failed' = total_failed + failed
  /\ pending' = session_rollback(pending)
  /\ fileLog' = Append(fileLog, FileEntry("commit_error"))
  /\ NextFile
  /\ lastStep' = "commit_error"
  /\ UNCHANGED <<loaders, session, parsed, response, dir, records, stats, job, jobs, runLog, aggVars, aggLog, attempt>>

\* the file loop is over: get_session commits what is left and closes
FinishRun ==
  /\ job = "ingest" /\ fileIdx > Len(weather_files)
  /\ records' = session_commit(records, pending)
  /\ pending' = {}
  /\ job' = "idle"
  /\ runLog' = Append(runLog,
        [inserted |-> total_inserted, skipped |-> total_skipped,
         failed |-> total_failed, files |-> fileLog,
         before |-> IF fileLog = << >> THEN records ELSE fileLog[1].before,
         after |-> session_commit(records, pending)])
  /\ lastStep' = "run_done"
  /\ UNCHANGED <<loaders, session, parsed, response, dir, stats, jobs, faults, fileIdx, lineIdx, inserted, skipped,
                 failed, total_inserted, total_skipped, total_failed, fileLog,
                 aggVars, aggLog, attempt>>

\* a caller adds one WeatherRecord and commits (tests/test_models.py): the
\* insert is rejected with IntegrityError when the key exists
DirectInsert ==
  /\ job = "idle" /\ jobs < MaxJobs
  /\ jobs' = jobs + 1
  /\ \E data \in DirectRows :
       LET record == WeatherRecord(data, NextId(records))
       IN /\ attempt' = Some(data)
          /\ IF UqStationDate(records, record)
             THEN /\ records' = session_commit(records, {record})
                  /\ lastStep' = "direct_ok"
             ELSE /\ records' = records
                  /\ lastStep' = "direct_IntegrityError"
  /\ UNCHANGED <<loaders, session, parsed, response, dir, stats, job, faults, loaderVars, aggVars, runLog, aggLog>>

\* ------------------------------------------------------------ aggregator
RECURSIVE Gcd(_, _)
Gcd(a, b) == IF b = 0 THEN a ELSE Gcd(b, a % b)

Abs(a) == IF a < 0 THEN 0 - a ELSE a

\* the real number n / d (d > 0) in lowest terms: a float, without its rounding
Frac(n, d) ==
  LET g == Gcd(Abs(n), d)
  IN [num |-> n \div g, den |-> d \div g]

\* x / k for a nullable number x
DivBy(x, k) == IF IsNone(x) THEN NoneV ELSE Some(Frac(x[1].num, x[1].den * k))

RECURSIVE SumOf(_, _)
SumOf(rows, col) ==
  IF rows = {} THEN 0
  ELSE LET r == CHOOSE x \in rows : TRUE
       IN r[col][1] + SumOf(rows \ {r}, col)

\* an average that takes a NULL value for zero
func_avg_null_as_zero(rows, col) ==
  LET nn == {r \in rows : ~IsNone(r[col])}
  IN IF rows = {} THEN NoneV ELSE Some(Frac(SumOf(nn, col), Cardinality(rows)))

\* SQL avg(col): NULL values are left out, NULL when none is left
func_avg(rows, col) ==
  LET nn == {r \in rows : ~IsNone(r[col])}
  IN IF nn = {} THEN NoneV ELSE Some(Frac(SumOf(nn, col), Cardinality(nn)))

\* SQL sum(col): NULL values are left out, NULL when none is left
func_sum(rows, col) ==
  LET nn == {r \in rows : ~IsNone(r[col])}
  IN IF nn = {} THEN NoneV ELSE Some(Frac(SumOf(nn, col), 1))

\* extract("year", WeatherRecord.date)
extract_year(date) == date.year

PairLE(a, b) == a[1] < b[1] \/ (a[1] = b[1] /\ a[2] <= b[2])

RECURSIVE SortPairs(_)
SortPairs(S) ==
  IF S = {} THEN << >>
  ELSE LET m == CHOOSE x \in S : \A y \in S : PairLE(x, y)
       IN <<m>> \o SortPairs(S \ {m})

\* the distinct (station_id, year) query, ordered by station_id, year
query_station_years(rows) ==
  SortPairs({<<r.station_id, extract_year(r.date)>> : r \in rows})

\* the three metrics of one (station_id, year), as calculate_weather_stats
\* computes them from the aggregate query
compute_stats(rows, station_id, year) ==
  LET sel == {r \in rows : r.station_id = station_id /\ extract_year(r.date) = year}
  IN [avg_max_temp |-> DivBy(func_avg(sel, "max_temp"), 10),
      avg_min_temp |-> DivBy(func_avg(sel, "min_temp"), 10),
      total_precipitation |-> DivBy(func_sum(sel, "precipitation"), 100)]

\* the existing_stat query: it reads the table, not the unflushed objects
existing_stat(table, station_id, year) ==
  {t \in table : t.station_id = station_id /\ t.year = year}

\* the update-or-add branch; s holds the session's unflushed objects, its
\* changed rows and the two counters
upsert_stat(table, station_id, year, m, s) ==
  LET found == existing_stat(table, station_id, year)
  IN IF found # {}
     THEN LET e == CHOOSE t \in found : TRUE
          IN [s EXCEPT !.dirty = @ \cup
                          {[e EXCEPT !.avg_max_temp = m.avg_max_temp,
                                     !.avg_min_temp = m.avg_min_temp,
                                     !.total_precipitation = m.total_precipitation]},
                       !.upd = @ + 1]
     ELSE [s EXCEPT !.new = Append(@,
                        [station_id |-> station_id, year |-> year,
                         avg_max_temp |-> m.avg_max_temp,
                         avg_min_temp |-> m.avg_min_temp,
                         total_precipitation |-> m.total_precipitation]),
                    !.ins = @ + 1]

\* ck_year_range
CkYearRange(row) == row.year >= 1900 /\ row.year <= 2100

\* uq_station_year: may this row be inserted beside these rows?
UqStationYear(table, row) ==
  \A t \in table : <<t.station_id, t.year>> # <<row.station_id, row.year>>

\* the INSERTs of a flush, in the order the objects were added
RECURSIVE flush_new(_, _)
flush_new(table, new) ==
  IF new = << >> THEN [ok |-> TRUE, table |-> table]
  ELSE LET row == [id |-> NextId(table)] @@ Head(new)
       IN IF CkYearRange(row) /\ UqStationYear(table, row)
          THEN flush_new(table \cup {row}, Tail(new))
          ELSE [ok |-> FALSE, table |-> table]

\* session.commit() of the aggregator's session: the UPDATEs, then the INSERTs;
\* one rejected statement (IntegrityError) undoes the whole transaction
stats_commit(table, new, dirty) ==
  LET updated == {t \in table : \A d \in dirty : d.id # t.id} \cup dirty
      r == flush_new(updated, new)
  IN IF r.ok THEN r ELSE [ok |-> FALSE, table |-> table]

\* the progress commit of calculate_weather_stats is taken every so many pairs
CommitEvery == 100

\* calculate_weather_stats up to the loop over the pairs
StartAgg ==
  /\ job = "idle" /\ jobs < MaxJobs
  /\ job' = "agg" /\ jobs' = jobs + 1
  /\ station_years' = query_station_years(records)
  /\ aggIdx' = 1
  /\ stats_inserted' = 0 /\ stats_updated' = 0
  /\ aggNew' = << >> /\ aggDirty' = {}
  /\ lastStep' = "agg_start"
  /\ UNCHANGED <<loaders, session, parsed, response, dir, records, stats, faults, loaderVars, runLog, aggLog, attempt>>

AggEntry(outcome, table) ==
  [outcome |-> outcome, inserted |-> stats_inserted, updated |-> stats_updated,
   pairs |-> station_years, before |-> stats, after |-> table, records |-> records]

\* one turn of the loop over the pairs
AggStep ==
  /\ job = "agg" /\ aggIdx <= Len(station_years)
  /\ LET station_id == station_years[aggIdx][1]
         year == station_years[aggIdx][2]
         s == upsert_stat(stats, station_id, year,
                          compute_stats(records, station_id, year),
                          [new |-> aggNew, dirty |-> aggDirty,
                           ins |-> stats_inserted, upd |-> stats_updated])
     IN /\ stats_inserted' = s.ins /\ stats_updated' = s.upd
        /\ IF (s.ins + s.upd) % CommitEvery = 0
           THEN LET c == stats_commit(stats, s.new, s.dirty)
                IN /\ stats' = c.table
                   /\ aggNew' = << >> /\ aggDirty' = {}
                   /\ IF c.ok
                      THEN /\ job' = job /\ aggLog' = aggLog
                           /\ lastStep' = "agg_step"
                      ELSE /\ job' = "idle"
                           /\ aggLog' = Append(aggLog, AggEntry("IntegrityError", stats))
                           /\ lastStep' = "agg_done"
           ELSE /\ aggNew' = s.new /\ aggDirty' = s.dirty
                /\ lastStep' = "agg_step"
                /\ UNCHANGED <<stats, job, aggLog>>
  /\ aggIdx' = aggIdx + 1
  /\ UNCHANGED <<loaders, session, parsed, response, dir, records, jobs, faults, loaderVars, station_years, runLog,
                 attempt>>

\* the final session.commit(); an IntegrityError leaves the function through
\* get_session, which rolls back and re-raises
FinishAgg ==
  /\ job = "agg" /\ aggIdx > Len(station_years)
  /\ LET c == stats_commit(stats, aggNew, aggDirty)
     IN /\ stats' = c.table
        /\ aggLog' = Append(aggLog,
              AggEntry(IF c.ok THEN "ok" ELSE "IntegrityError", c.table))
  /\ aggNew' = << >> /\ aggDirty' = {}
  /\ job' = "idle"
  /\ lastStep' = "agg_done"
  /\ UNCHANGED <<loaders, session, parsed, response, dir, records, jobs, faults, loaderVars, station_years, aggIdx,
                 stats_inserted, stats_updated, runLog, attempt>>

\* --------------------------------------------------------- query service
\* Config.DEFAULT_PAGE_SIZE
DEFAULT_PAGE_SIZE == 100

\* Config.MAX_PAGE_SIZE
MAX_PAGE_SIZE == 1000

\* a query-string value is a string: a sequence of tokens, << >> the empty
\* string; request.args.get gives NoneV for a parameter that is not there
\* `if station_id:` and the like: neither None nor the empty string
TruthyStr(x) == x # NoneV /\ x[1] # << >>

\* `if year:` and the like: neither None nor 0
TruthyInt(x) == x # NoneV /\ x[1] # 0

\* the text "YYYY-MM-DD" of the digits y, m, d
DateText(y, m, d) == <<[k |-> "ymd", v |-> y * 10000 + m * 100 + d]>>

\* the station name as text
StationText(station_id) == <<[k |-> "name", v |-> station_id]>>

DateNum(date) == date.year * 10000 + date.month * 100 + date.day

\* date.isoformat()
isoformat(date) == DateText(date.year, date.month, date.day)

\* parse_date: datetime.strptime(date_str, "%Y-%m-%d").date(); NoneV stands
\* for ValueError("Date must be in YYYY-MM-DD format")
parse_date(date_str) ==
  IF Len(date_str) = 1 /\ date_str[1].k = "ymd"
  THEN LET n == date_str[1].v
           y == n \div 10000
           m == (n \div 100) % 100
           d == n % 100
       IN IF y \in 1..9999 /\ m \in 1..12 /\ d \in 1..DaysIn(y, m)
          THEN Some([year |-> y, month |-> m, day |-> d])
          ELSE NoneV
  ELSE NoneV

\* the coercion without the cap at the maximum
get_pagination_params_uncapped(args) ==
  LET page == IF IsNone(args.page) THEN 1 ELSE args.page[1]
      page_size == IF IsNone(args.page_size) THEN DEFAULT_PAGE_SIZE
                   ELSE args.page_size[1]
  IN [page |-> IF page < 1 THEN 1 ELSE page,
      page_size |-> IF page_size < 1 THEN DEFAULT_PAGE_SIZE ELSE page_size]

\* get_pagination_params: request.args.get(..., type=int) gives the default
\* for a parameter that is not there (NoneV)
get_pagination_params(args) ==
  LET page == IF IsNone(args.page) THEN 1 ELSE args.page[1]
      page_size == IF IsNone(args.page_size) THEN DEFAULT_PAGE_SIZE
                   ELSE args.page_size[1]
      size1 == IF page_size < 1 THEN DEFAULT_PAGE_SIZE ELSE page_size
  IN [page |-> IF page < 1 THEN 1 ELSE page,
      page_size |-> IF size1 > MAX_PAGE_SIZE THEN MAX_PAGE_SIZE ELSE size1]

\* a page count that rounds down
create_paginated_response_floor(records_data, total_count, page, page_size) ==
  [data |-> records_data,
   pagination |-> [page |-> page, page_size |-> page_size,
                   total_records |-> total_count,
                   total_pages |-> total_count \div page_size]]

create_paginated_response(records_data, total_count, page, page_size) ==
  LET total_pages == (total_count + page_size - 1) \div page_size
  IN [data |-> records_data,
      pagination |-> [page |-> page, page_size |-> page_size,
                      total_records |-> total_count,
                      total_pages |-> total_pages]]

\* x / k for a nullable integer x
ValDiv(x, k) == IF IsNone(x) THEN NoneV ELSE Some(Frac(x[1], k))

\* to_dict with the three values tested by truth value: a stored 0 shows as null
record_to_dict_zero_as_null(r) ==
  LET shown(x) == IF IsNone(x) \/ x[1] = 0 THEN NoneV ELSE Some(Frac(x[1], 10))
  IN [id |-> r.id, station_id |-> StationText(r.station_id),
      date |-> isoformat(r.date),
      max_temp |-> shown(r.max_temp),
      min_temp |-> shown(r.min_temp),
      precipitation |-> shown(r.precipitation)]

\* WeatherRecord.to_dict
record_to_dict(r) ==
  [id |-> r.id, station_id |-> StationText(r.station_id),
   date |-> isoformat(r.date),
   max_temp |-> ValDiv(r.max_temp, 10),
   min_temp |-> ValDiv(r.min_temp, 10),
   precipitation |-> ValDiv(r.precipitation, 10)]

\* round(x, 2) of the number n / d: the nearest hundredth, a tie to the even one
Round2(x) ==
  IF IsNone(x) THEN NoneV
  ELSE LET n == x[1].num * 100
           d == x[1].den
           q == n \div d
           r == n - q * d
           h == IF 2 * r > d \/ (2 * r = d /\ q % 2 = 1) THEN q + 1 ELSE q
       IN Some(Frac(h, 100))

\* WeatherStats.to_dict
stats_to_dict(t) ==
  [id |-> t.id, station_id |-> StationText(t.station_id), year |-> t.year,
   avg_max_temp |-> Round2(t.avg_max_temp),
   avg_min_temp |-> Round2(t.avg_min_temp),
   total_precipitation |-> Round2(t.total_precipitation)]

\* order_by(WeatherRecord.date, WeatherRecord.station_id)
RECURSIVE order_by_date_station(_)
order_by_date_station(rows) ==
  IF rows = {} THEN << >>
  ELSE LET m == CHOOSE x \in rows : \A y \in rows :
                  PairLE(<<DateNum(x.date), x.station_id>>,
                         <<DateNum(y.date), y.station_id>>)
       IN <<m>> \o order_by_date_station(rows \ {m})

\* order_by(WeatherStats.year, WeatherStats.station_id)
RECURSIVE order_by_year_station(_)
order_by_year_station(table) ==
  IF table = {} THEN << >>
  ELSE LET m == CHOOSE x \in table : \A y \in table :
                  PairLE(<<x.year, x.station_id>>, <<y.year, y.station_id>>)
       IN <<m>> \o order_by_year_station(table \ {m})

\* an offset that starts one page late
offset_limit_skip_first(ordered, page, page_size) ==
  LET offset == page * page_size
      last == IF offset + page_size < Len(ordered) THEN offset + page_size
              ELSE Len(ordered)
  IN IF offset >= Len(ordered) THEN << >> ELSE SubSeq(ordered, offset + 1, last)

\* query.offset((page - 1) * page_size).limit(page_size).all()
offset_limit(ordered, page, page_size) ==
  LET offset == (page - 1) * page_size
      last == IF offset + page_size < Len(ordered) THEN offset + page_size
              ELSE Len(ordered)
  IN IF offset >= Len(ordered) THEN << >> ELSE SubSeq(ordered, offset + 1, last)

\* records_data = [record.to_dict() for record in records]
records_data_of(found) == [i \in 1..Len(found) |-> record_to_dict(found[i])]

\* stats_data = [stat.to_dict() for stat in stats]
stats_data_of(found) == [i \in 1..Len(found) |-> stats_to_dict(found[i])]

\* the filters WeatherList.get adds to its query
weather_query(args, rows) ==
  {r \in rows :
     /\ TruthyStr(args.station_id) => StationText(r.station_id) = args.station_id[1]
     /\ TruthyStr(args.date) => r.date = parse_date(args.date[1])[1]
     /\ TruthyStr(args.start_date)
          => DateNum(r.date) >= DateNum(parse_date(args.start_date[1])[1])
     /\ TruthyStr(args.end_date)
          => DateNum(r.date) <= DateNum(parse_date(args.end_date[1])[1])}

\* WeatherList.get: the reply, and whether the query was sent to storage
\* (count() and all() come after the last early return)
WeatherList_get(args, rows) ==
  LET p == get_pagination_params(args)
      bad(x) == TruthyStr(x) /\ IsNone(parse_date(x[1]))
  IN IF bad(args.date) \/ bad(args.start_date) \/ bad(args.end_date)
     THEN [status |-> 400,
           body |-> [error |-> "Date must be in YYYY-MM-DD format"],
           executed |-> FALSE]
     ELSE LET query == order_by_date_station(weather_query(args, rows))
              total_count == Len(query)
              found == offset_limit(query, p.page, p.page_size)
          IN [status |-> 200,
              body |-> create_paginated_response(records_data_of(found),
                                                 total_count, p.page, p.page_size),
              executed |-> TRUE]

\* the filters WeatherStatsList.get adds to its query
stats_query(args, table) ==
  {t \in table :
     /\ TruthyStr(args.station_id) => StationText(t.station_id) = args.station_id[1]
     /\ TruthyInt(args.year) => t.year = args.year[1]
     /\ TruthyInt(args.start_year) => t.year >= args.start_year[1]
     /\ TruthyInt(args.end_year) => t.year <= args.end_year[1]}

\* WeatherStatsList.get
WeatherStatsList_get(args, table) ==
  LET p == get_pagination_params(args)
      query == order_by_year_station(stats_query(args, table))
      total_count == Len(query)
      found == offset_limit(query, p.page, p.page_size)
  IN [status |-> 200,
      body |-> create_paginated_response(stats_data_of(found),
                                         total_count, p.page, p.page_size),
      executed |-> TRUE]

\* ----------------------------------------------------- requests, storage
NoArgs ==
  [station_id |-> NoneV, date |-> NoneV, start_date |-> NoneV,
   end_date |-> NoneV, page |-> NoneV, page_size |-> NoneV]

NoStatsArgs ==
  [station_id |-> NoneV, year |-> NoneV, start_year |-> NoneV,
   end_year |-> NoneV, page |-> NoneV, page_size |-> NoneV]

\* the requests made between the batch jobs
ProbeQueries == {NoArgs, [NoArgs EXCEPT !.date = Some(DateText(2024, 13, 45))]}

ProbeStatsQueries == {NoStatsArgs}

Pages == {NoneV, Some(0 - 1), Some(0), Some(2)}

PageSizes ==
  {NoneV, Some(0 - 1), Some(0), Some(1), Some(2),
   Some(MAX_PAGE_SIZE), Some(MAX_PAGE_SIZE + 1)}

\* the requests of the query service on its own
WeatherQueries ==
  [station_id : {NoneV, Some(<< >>), Some(StationText(72))},
   date : {NoneV, Some(<< >>), Some(DateText(1985, 1, 1)), Some(DateText(2024, 13, 45))},
   start_date : {NoneV, Some(DateText(1985, 1, 2)), Some(<<TXT>>)},
   end_date : {NoneV, Some(DateText(1985, 1, 2))},
   page : Pages, page_size : PageSizes]

StatsQueries ==
  [station_id : {NoneV, Some(<< >>), Some(StationText(187))},
   year : {NoneV, Some(0), Some(1985)},
   start_year : {NoneV, Some(1986)},
   end_year : {NoneV, Some(0), Some(1985)},
   page : Pages, page_size : PageSizes]

\* a whole aggregator run over these rows and this table: the loop over the
\* pairs, then the final commit
RECURSIVE aggregate_pairs(_, _, _, _)
aggregate_pairs(rows, table, pairs, s) ==
  IF pairs = << >> THEN s
  ELSE aggregate_pairs(rows, table, Tail(pairs),
         upsert_stat(table, Head(pairs)[1], Head(pairs)[2],
                     compute_stats(rows, Head(pairs)[1], Head(pairs)[2]), s))

calculate_weather_stats(rows, table) ==
  LET s == aggregate_pairs(rows, table, query_station_years(rows),
                           [new |-> << >>, dirty |-> {}, ins |-> 0, upd |-> 0])
  IN stats_commit(table, s.new, s.dirty).table

LineNext == <<Num(19860101), TAB, Num(10), TAB, Num(0), TAB, Num(MISSING)>>

\* the row the loader stores for a line
Row(line, station_id, id) == WeatherRecord(parse_weather_line(line, station_id), id)

\* what loader runs over 72.txt and 187.txt have stored, file after file
StoredRecords ==
  {{},
   {Row(LineA, 72, 1)},
   {Row(LineA, 72, 1), Row(LineB, 72, 2), Row(LineA, 187, 3)},
   {Row(LineA, 72, 1), Row(LineB, 72, 2), Row(LineA, 187, 3), Row(LineNext, 187, 4)}}

\* storage as the batch jobs leave it: the aggregator has not run yet, or it
\* has run over an earlier or the present state of the records
Storages ==
  UNION {{[records |-> r, stats |-> t] :
            t \in {{}} \cup {calculate_weather_stats(r0, {}) :
                               r0 \in {x \in StoredRecords : x \subseteq r}}} :
         r \in StoredRecords}

\* GET /api/weather: a session of its own reads the committed rows; a reply
\* depends on the request and the rows alone, so one request is followed
WeatherListGet(queries) ==
  /\ job = "idle" /\ jobs < MaxJobs /\ response = NoneV
  /\ jobs' = jobs + 1
  /\ \E args \in queries :
       response' = Some([endpoint |-> "weather", args |-> args]
                          @@ WeatherList_get(args, records))
  /\ lastStep' = "query"
  /\ UNCHANGED <<loaders, session, parsed, dir, records, stats, job, faults, loaderVars, aggVars,
                 runLog, aggLog, attempt>>

\* GET /api/weather/stats
WeatherStatsListGet(queries) ==
  /\ job = "idle" /\ jobs < MaxJobs /\ response = NoneV
  /\ jobs' = jobs + 1
  /\ \E args \in queries :
       response' = Some([endpoint |-> "stats", args |-> args]
                          @@ WeatherStatsList_get(args, stats))
  /\ lastStep' = "query"
  /\ UNCHANGED <<loaders, session, parsed, dir, records, stats, job, faults, loaderVars, aggVars,
                 runLog, aggLog, attempt>>

Init ==
  /\ dir \in Directories
  /\ records = {} /\ stats = {} /\ pending = {}
  /\ job = "idle" /\ jobs = 0 /\ faults = 0
  /\ fileIdx = 1 /\ lineIdx = 1
  /\ inserted = 0 /\ skipped = 0 /\ failed = 0
  /\ total_inserted = 0 /\ total_skipped = 0 /\ total_failed = 0
  /\ fileLog = << >> /\ runLog = << >> /\ aggLog = << >>
  /\ station_years = << >> /\ aggIdx = 1
  /\ stats_inserted = 0 /\ stats_updated = 0
  /\ aggNew = << >> /\ aggDirty = {}
  /\ attempt = NoneV
  /\ response = NoneV
  /\ parsed = NoneV
  /\ session = NoSession
  /\ loaders = NoLoaders
  /\ lastStep = "init"

Next ==
  \/ StartIngest
  \/ IngestLine
  \/ FinishFile
  \/ FileError
  \/ CommitError
  \/ FinishRun
  \/ DirectInsert
  \/ StartAgg
  \/ AggStep
  \/ FinishAgg
  \/ WeatherListGet(ProbeQueries)
  \/ WeatherStatsListGet(ProbeStatsQueries)

Spec == Init /\ [][Next]_vars

\* no job is running and nothing has been logged
Fresh ==
  /\ pending = {}
  /\ job = "idle" /\ jobs = 0 /\ faults = 0
  /\ fileIdx = 1 /\ lineIdx = 1
  /\ inserted = 0 /\ skipped = 0 /\ failed = 0
  /\ total_inserted = 0 /\ total_skipped = 0 /\ total_failed = 0
  /\ fileLog = << >> /\ runLog = << >> /\ aggLog = << >>
  /\ station_years = << >> /\ aggIdx = 1
  /\ stats_inserted = 0 /\ stats_updated = 0
  /\ aggNew = << >> /\ aggDirty = {}
  /\ attempt = NoneV
  /\ response = NoneV
  /\ parsed = NoneV
  /\ session = NoSession
  /\ lastStep = "init"

\* the query service over storage as the batch jobs have left it
QueryInit ==
  /\ dir = [st \in Stations |-> << >>]
  /\ \E g \in Storages : records = g.records /\ stats = g.stats
  /\ loaders = NoLoaders
  /\ Fresh

QueryNext ==
  \/ WeatherListGet(WeatherQueries)
  \/ WeatherStatsListGet(StatsQueries)

QuerySpec == QueryInit /\ [][QueryNext]_vars

\* the batch jobs on a database that a loader run and an aggregator run have
\* filled before: 72.txt held LineA then
RerunInit ==
  /\ dir \in Directories
  /\ records = {Row(LineA, 72, 1)}
  /\ stats = calculate_weather_stats({Row(LineA, 72, 1)}, {})
  /\ loaders = NoLoaders
  /\ Fresh

RerunSpec == RerunInit /\ [][Next]_vars

\* ------------------------------------------------------ the parser alone
\* integers a numeric field may hold
ParseValues ==
  {MISSING, MISSING - 1, MISSING + 1, 0 - MISSING, 0, 2000000000, 0 - 2000000000}

\* the fields of a line: dates (the second one is no calendar date) and values
DateFields == {Num(19850101), Num(19850230), TXT}

ValueFields == {Num(v) : v \in ParseValues} \cup {TXT}

TabLine(d, a, b, c) == <<d, TAB, a, TAB, b, TAB, c>>

\* the lines given to the parser: four tab-separated fields, bare or padded
\* with blanks; fields separated by blanks; other field counts; whitespace
\* around the line or after the date
ParseLines ==
  {TabLine(d, a, b, c) : d \in DateFields, a \in ValueFields, b \in ValueFields,
                         c \in ValueFields}
  \cup UNION {{<<SP, d, TAB, SP, a, SP, TAB, b, TAB, SP, SP, c, SP, TAB>>,
               <<d, SP, a, SP, b, SP, c>>,
               <<d, TAB, a, SP, b, TAB, c>>,
               <<d, SP, TAB, a, TAB, b, TAB, c>>,
               <<d, TAB, a, TAB, b>>,
               <<d, TAB, a, TAB, b, TAB>>,
               <<d, TAB, a, TAB, b, TAB, c, TAB, c>>,
               <<d, TAB, TAB, a, TAB, b>>,
               <<d>>} :
              d \in DateFields, a \in {Num(MISSING), Num(5)},
              b \in {Num(0 - 5), TXT}, c \in {Num(MISSING), Num(0)}}

\* parse_weather_line is called with a line and a station
ParseLine ==
  /\ job = "idle" /\ parsed = NoneV
  /\ \E line \in ParseLines, station_id \in Stations :
       parsed' = Some([line |-> line, station_id |-> station_id,
                       result |-> parse_weather_line(line, station_id)])
  /\ lastStep' = "parsed"
  /\ UNCHANGED <<loaders, session, response, dir, records, stats, job, jobs, faults, loaderVars,
                 aggVars, runLog, aggLog, attempt>>

ParseInit ==
  /\ dir = [st \in Stations |-> << >>]
  /\ records = {} /\ stats = {}
  /\ loaders = NoLoaders
  /\ Fresh

ParseNext == ParseLine

ParseSpec == ParseInit /\ [][ParseNext]_vars

\* -------------------------------------------------------- scoped session
\* get_session around the blocks its callers run in it; session.pc is the
\* place in get_session ("block" while the caller's with-block runs),
\* session.block the caller ("get" for WeatherList.get, "write" for a caller
\* that adds rows, as the batch jobs and the tests do),
\* session.log what get_session has called on the session, session.exc whether
\* an exception has reached get_session, session.raised whether get_session
\* has raised to its caller, session.start the committed rows when the session
\* was made and session.own the rows the block has committed itself

\* rows the blocks add
SessionRows ==
  DirectRows \cup {[f \in {"station_id", "date", "max_temp", "min_temp", "precipitation"}
                     |-> parse_weather_line(LineB, 72)[f]]}

\* get_session up to its yield: the session is made and given to the block
GetSession ==
  /\ job = "idle" /\ jobs < MaxJobs
  /\ session.pc \in {"none", "released"}
  /\ jobs' = jobs + 1
  /\ \E b \in {"get", "write"} :
       session' = [pc |-> "block", block |-> b, log |-> <<"acquire">>,
                   exc |-> FALSE, raised |-> FALSE, start |-> records, own |-> {}]
  /\ pending' = {}
  /\ response' = NoneV
  /\ lastStep' = "acquire"
  /\ UNCHANGED <<parsed, dir, records, stats, job, faults, fileIdx, lineIdx,
                 inserted, skipped, failed, total_inserted, total_skipped,
                 total_failed, fileLog, aggVars, runLog, aggLog, attempt, loaders>>

\* what a block step leaves alone
BlockFrame ==
  UNCHANGED <<parsed, dir, stats, job, jobs, faults, fileIdx, lineIdx,
              inserted, skipped, failed, total_inserted, total_skipped,
              total_failed, fileLog, aggVars, runLog, aggLog, attempt, loaders>>

\* the block adds a row and flushes; the IntegrityError of a stored key
\* leaves the block
BlockAdd ==
  /\ session.pc = "block" /\ session.block = "write"
  /\ \E data \in SessionRows :
       LET record == WeatherRecord(data, NextId(records \cup pending))
       IN IF UqStationDate(records \cup pending, record)
          THEN /\ pending' = pending \cup {record}
               /\ session' = session
               /\ lastStep' = "block_add"
          ELSE /\ pending' = pending
               /\ session' = [session EXCEPT !.pc = "except", !.exc = TRUE]
               /\ lastStep' = "block_raise"
  /\ UNCHANGED <<records, response>>
  /\ BlockFrame

\* the block commits what it has flushed, as the batch jobs do
BlockCommit ==
  /\ session.pc = "block" /\ session.block = "write" /\ pending # {}
  /\ records' = session_commit(records, pending)
  /\ session' = [session EXCEPT !.own = @ \cup pending]
  /\ pending' = {}
  /\ lastStep' = "block_commit"
  /\ UNCHANGED response
  /\ BlockFrame

\* the block of WeatherList.get: it returns the page, or the validation
\* error, from inside the with statement
BlockQuery ==
  /\ session.pc = "block" /\ session.block = "get"
  /\ \E args \in ProbeQueries :
       response' = Some([endpoint |-> "weather", args |-> args]
                          @@ WeatherList_get(args, records))
  /\ session' = [session EXCEPT !.pc = "exit"]
  /\ lastStep' = "query"
  /\ UNCHANGED <<records, pending>>
  /\ BlockFrame

\* the block ends without an exception
BlockReturn ==
  /\ session.pc = "block" /\ session.block = "write"
  /\ session' = [session EXCEPT !.pc = "exit"]
  /\ lastStep' = "block_return"
  /\ UNCHANGED <<records, pending, response>>
  /\ BlockFrame

\* an exception leaves the block
BlockRaise ==
  /\ session.pc = "block"
  /\ session' = [session EXCEPT !.pc = "except", !.exc = TRUE]
  /\ lastStep' = "block_raise"
  /\ UNCHANGED <<records, pending, response>>
  /\ BlockFrame

\* the except clause that commits what the block has flushed
SessionRollback_commits ==
  /\ session.pc = "except"
  /\ records' = session_commit(records, pending)
  /\ pending' = {}
  /\ session' = [session EXCEPT !.pc = "finally", !.log = Append(@, "rollback"),
                                !.raised = TRUE]
  /\ lastStep' = "session_rollback"
  /\ UNCHANGED response
  /\ BlockFrame

\* after the yield: `if session.is_active: session.commit()`; the blocks
\* leave the session active whenever they end without an exception. An
\* unexpected error of the commit is an exception inside the try
SessionCommit ==
  /\ session.pc = "exit"
  /\ \/ /\ records' = session_commit(records, pending)
        /\ pending' = {}
        /\ session' = [session EXCEPT !.pc = "finally", !.log = Append(@, "commit")]
        /\ lastStep' = "session_commit"
        /\ UNCHANGED <<response, faults>>
     \/ /\ faults < MaxFaults
        /\ faults' = faults + 1
        /\ session' = [session EXCEPT !.pc = "except", !.exc = TRUE]
        /\ lastStep' = "session_commit_error"
        /\ UNCHANGED <<records, pending, response>>
  /\ UNCHANGED <<parsed, dir, stats, job, jobs, fileIdx, lineIdx,
                 inserted, skipped, failed, total_inserted, total_skipped,
                 total_failed, fileLog, aggVars, runLog, aggLog, attempt, loaders>>

\* the except clause: session.rollback(), then raise
SessionRollback ==
  /\ session.pc = "except"
  /\ pending' = session_rollback(pending)
  /\ session' = [session EXCEPT !.pc = "finally", !.log = Append(@, "rollback"),
                                !.raised = TRUE]
  /\ lastStep' = "session_rollback"
  /\ UNCHANGED <<records, response>>
  /\ BlockFrame

\* the finally clause: session.close(); the caller goes on after it
SessionClose ==
  /\ session.pc = "finally"
  /\ session' = [session EXCEPT !.pc = "released", !.log = Append(@, "close")]
  /\ lastStep' = "session_close"
  /\ UNCHANGED <<records, pending, response>>
  /\ BlockFrame

SessionInit ==
  /\ dir = [st \in Stations |-> << >>]
  /\ records \in {{}, {Row(LineA, 72, 1)}}
  /\ stats = {}
  /\ loaders = NoLoaders
  /\ Fresh

SessionNext ==
  \/ GetSession
  \/ BlockAdd
  \/ BlockCommit
  \/ BlockQuery
  \/ BlockReturn
  \/ BlockRaise
  \/ SessionCommit
  \/ SessionRollback
  \/ SessionClose

\* a with statement that is entered is run to its end
SessionSpec == SessionInit /\ [][SessionNext]_vars /\ WF_vars(SessionNext)

\* ------------------------------------------------- loaders side by side
\* ingest_weather_file from line k on, with no unexpected error
RECURSIVE ingest_weather_file(_, _, _, _, _)
ingest_weather_file(f, k, station_id, committed, s) ==
  IF k > Len(f) THEN s
  ELSE ingest_weather_file(f, k + 1, station_id, committed,
         IF IsBlank(f[k]) THEN s ELSE ingest_line(f[k], station_id, committed, s))

\* ingest_all_weather_data over the files, with no unexpected error: what a
\* run on its own leaves committed
RECURSIVE ingest_all_weather_data(_, _, _)
ingest_all_weather_data(d, files, committed) ==
  IF files = << >> THEN committed
  ELSE LET s == ingest_weather_file(d[Head(files)], 1, Head(files), committed,
                  [pending |-> {}, inserted |-> 0, skipped |-> 0, failed |-> 0])
       IN ingest_all_weather_data(d, Tail(files), session_commit(committed, s.pending))

\* the other of the two runs
Other(i) == CHOOSE j \in Loaders : j # i

LoaderInFile(i) ==
  /\ loaders[i].pc = "run"
  /\ loaders[i].fileIdx <= Len(weather_files)

LoaderFile(i) == dir[weather_files[loaders[i].fileIdx]]

LoaderAtLine(i) ==
  /\ LoaderInFile(i)
  /\ loaders[i].lineIdx <= Len(LoaderFile(i))

\* the next line of run i makes it write: it is a record, not blank or bad
LoaderWrites(i) ==
  /\ LoaderAtLine(i)
  /\ LET line == LoaderFile(i)[loaders[i].lineIdx]
     IN ~IsBlank(line)
        /\ parse_weather_line(line, weather_files[loaders[i].fileIdx]).ok

\* the INSERT of run i waits for the other session, which has flushed rows
\* and neither committed nor rolled back: in sqlite for any row, the other
\* session holding the write lock; in a server for a row of the same
\* (station_id, date)
LoaderWaits(i) ==
  /\ LoaderWrites(i)
  /\ LET st == weather_files[loaders[i].fileIdx]
         data == parse_weather_line(LoaderFile(i)[loaders[i].lineIdx], st)
     IN IF loaders[i].db = "sqlite"
        THEN loaders[Other(i)].pending # {}
        ELSE Key(data) \in {Key(r) : r \in loaders[Other(i)].pending}

\* what a step of the runs leaves alone
LoaderFrame ==
  UNCHANGED <<session, parsed, response, dir, stats, job, jobs, faults,
              loaderVars, aggVars, runLog, aggLog, attempt>>

LoaderNextFile(me) ==
  [me EXCEPT !.fileIdx = @ + 1, !.lineIdx = 1, !.pending = {},
             !.inserted = 0, !.skipped = 0, !.failed = 0]

\* ingest_all_weather_data of run i up to the file loop, in a session of its own
LoaderStart(i) ==
  /\ loaders[i].pc = "idle"
  /\ loaders' = [loaders EXCEPT ![i] = [@ EXCEPT !.pc = "run"]]
  /\ lastStep' = "start"
  /\ UNCHANGED records
  /\ LoaderFrame

\* one turn of the line loop of run i; the row it flushes takes the next id
\* of the table's sequence
LoaderLine(i) ==
  /\ LoaderAtLine(i) /\ ~LoaderWaits(i)
  /\ LET me == loaders[i]
         st == weather_files[me.fileIdx]
         line == LoaderFile(i)[me.lineIdx]
         s == [pending |-> me.pending, inserted |-> me.inserted,
               skipped |-> me.skipped, failed |-> me.failed]
         t == IF IsBlank(line) THEN s ELSE ingest_line(line, st, records, s)
         id == NextId(records \cup me.pending \cup loaders[Other(i)].pending)
         flushed == (t.pending \cap me.pending)
                      \cup {[r EXCEPT !.id = id] : r \in t.pending \ me.pending}
     IN /\ loaders' = [loaders EXCEPT ![i] =
             [me EXCEPT !.pending = flushed, !.inserted = t.inserted,
                        !.skipped = t.skipped, !.failed = t.failed,
                        !.lineIdx = @ + 1]]
        /\ lastStep' = IF IsBlank(line) THEN "blank"
                       ELSE IF t.failed # me.failed THEN "failed"
                       ELSE IF t.skipped # me.skipped THEN "skipped"
                       ELSE "inserted"
  /\ UNCHANGED records
  /\ LoaderFrame

\* the database gives the waiting INSERT of run i up (sqlite: "database is
\* locked" after the busy timeout; a server: its lock wait timeout): an
\* OperationalError, which ingest_weather_file re-raises; the file loop rolls
\* back and goes on with the next file
LoaderLocked(i) ==
  /\ LoaderWaits(i)
  /\ loaders' = [loaders EXCEPT ![i] = LoaderNextFile(@)]
  /\ lastStep' = "file_error"
  /\ UNCHANGED records
  /\ LoaderFrame

\* ingest_weather_file of run i returns: totals, session.commit()
LoaderFinishFile(i) ==
  /\ LoaderInFile(i) /\ ~LoaderAtLine(i)
  /\ records' = session_commit(records, loaders[i].pending)
  /\ loaders' = [loaders EXCEPT ![i] =
        LoaderNextFile([@ EXCEPT !.total_inserted = @ + loaders[i].inserted,
                                 !.total_skipped = @ + loaders[i].skipped,
                                 !.total_failed = @ + loaders[i].failed])]
  /\ lastStep' = "commit"
  /\ LoaderFrame

\* the file loop of run i is over: get_session commits and closes
LoaderFinishRun(i) ==
  /\ loaders[i].pc = "run" /\ ~LoaderInFile(i)
  /\ records' = session_commit(records, loaders[i].pending)
  /\ loaders' = [loaders EXCEPT ![i] = [@ EXCEPT !.pc = "done", !.pending = {}]]
  /\ lastStep' = "run_done"
  /\ LoaderFrame

LoaderStep(i) ==
  \/ LoaderStart(i)
  \/ LoaderLine(i)
  \/ LoaderLocked(i)
  \/ LoaderFinishFile(i)
  \/ LoaderFinishRun(i)

\* the directories the two runs share: 72.txt with up to MaxFileLines lines
\* (records of one date or another, and a bad line), 187.txt with one line
\* at most
PairLines == {LineA, LineB, LineBad}

PairDirectories ==
  {d \in [Stations -> UNION {[1..k -> PairLines] : k \in 0..MaxFileLines}] :
     Len(d[187]) <= 1}

\* two runs of ingest_weather.main over one directory and one empty database
PairInit ==
  /\ dir \in PairDirectories
  /\ records = {} /\ stats = {}
  /\ \E e \in Engines : loaders = [i \in Loaders |-> [IdleLoader EXCEPT !.db = e]]
  /\ Fresh

PairNext == \E i \in Loaders : LoaderStep(i)

PairSpec == PairInit /\ [][PairNext]_vars

\* ================================================================ claims
Keys(rows) == {Key(r) : r \in rows}

\* a finished loader run in which no unexpected error was raised
FaultFree(run) == \A i \in 1..Len(run.files) : run.files[i].outcome = "ok"

\* the step is one turn of the line loop on a non-blank line
LineStep ==
  /\ InFile /\ lineIdx <= Len(station_file)
  /\ ~IsBlank(station_file[lineIdx])
  /\ faults' = faults /\ lineIdx' # lineIdx

\* the record the current line parses to (when it parses)
CurrentData == parse_weather_line(station_file[lineIdx], weather_files[fileIdx])

\* C1: two loader runs over the same unchanged directory, the first begun on
\* empty storage, storage untouched in between and no unexpected error: the
\* second run inserts nothing, skips as many lines as the first run inserted,
\* and leaves the number of stored Observations as the first run left it.
C1_IdempotentIngestion ==
  \A i \in 2..Len(runLog) :
    (FaultFree(runLog[i - 1]) /\ FaultFree(runLog[i])
        /\ runLog[i - 1].before = {}
        /\ runLog[i].before = runLog[i - 1].after)
    => /\ runLog[i].inserted = 0
       /\ runLog[i].skipped = runLog[i - 1].inserted
       /\ Cardinality(runLog[i].after) = Cardinality(runLog[i - 1].after)

\* C2: at the end of a loader run (here: one without any unexpected error, so
\* that only duplicate and malformed lines follow an insertion) the stored
\* Observations have grown by the run's inserted total: whatever was counted
\* as inserted is in storage.
C2_InsertedIsDurable ==
  \A i \in 1..Len(runLog) :
    FaultFree(runLog[i])
    => /\ runLog[i].before \subseteq runLog[i].after
       /\ Cardinality(runLog[i].after) - Cardinality(runLog[i].before)
            = runLog[i].inserted

\* C3: a line whose (station, date) is already stored is counted once as
\* skipped, raises nothing, the loop goes on with the next line, and the stored
\* record with that key is still there with the values it had.
C3_DuplicateLeavesRecord ==
  [][(LineStep /\ CurrentData.ok
        /\ <<CurrentData.station_id, CurrentData.date>> \in Keys(View))
     => /\ skipped' = skipped + 1
        /\ inserted' = inserted /\ failed' = failed
        /\ job' = "ingest" /\ fileIdx' = fileIdx /\ lineIdx' = lineIdx + 1
        /\ \A r \in View :
             Key(r) = <<CurrentData.station_id, CurrentData.date>>
               => r \in (records \cup pending)']_vars

UniqueObservations(rows) == \A a, b \in rows : Key(a) = Key(b) => a = b

UniqueStatistics(table) ==
  \A a, b \in table : (a.station_id = b.station_id /\ a.year = b.year) => a = b

\* the step is a direct insert of a row whose key is stored
DirectDuplicateStep ==
  /\ job = "idle" /\ job' = "idle" /\ jobs' = jobs + 1
  /\ response' = response
  /\ \E r \in records : <<r.station_id, r.date>> =
                          <<attempt'[1].station_id, attempt'[1].date>>

\* C4: storage never holds two Observations with one (station, date) nor two
\* AnnualStatistics with one (station, year), the open transaction included;
\* committing a second row with a stored key is rejected with IntegrityError
\* and stores nothing.
C4_UniqueKeys ==
  /\ [](UniqueObservations(View) /\ UniqueStatistics(stats))
  /\ [][DirectDuplicateStep
          => (records' = records /\ lastStep' = "direct_IntegrityError")]_vars

C4_Witness ==
  /\ lastStep = "direct_IntegrityError"
  /\ \E r \in records : Key(r) = <<attempt[1].station_id, attempt[1].date>>
                          /\ r.max_temp # attempt[1].max_temp

\* the files of a run that an unexpected error has hit
Errored(run) ==
  {i \in 1..Len(run.files) : run.files[i].outcome # "ok"}

\* C5: the Observations inserted from a file before an unexpected error hit
\* it are in storage when the run ends.
C5_PartialInsertsKept ==
  \A i \in 1..Len(runLog) :
    \A f \in Errored(runLog[i]) :
      Keys(runLog[i].files[f].flushed) \subseteq Keys(runLog[i].after)

\* the keys of the lines of a file that parse
ParseableKeys(station_id) ==
  {<<station_id, parse_weather_line(dir[station_id][n], station_id).date>> :
     n \in {m \in 1..Len(dir[station_id]) :
              ~IsBlank(dir[station_id][m])
              /\ parse_weather_line(dir[station_id][m], station_id).ok}}

\* C6: after an unexpected error in one file, every later file is read to its
\* end and its parseable records are stored when the run ends, and what was
\* committed before the error is still stored.
C6_ErrorAbortsOneFile ==
  \A i \in 1..Len(runLog) :
    \A f \in Errored(runLog[i]) :
      /\ Len(runLog[i].files) = Len(weather_files)
      /\ runLog[i].files[f].before \subseteq runLog[i].after
      /\ \A g \in (f + 1)..Len(runLog[i].files) :
           LET e == runLog[i].files[g]
           IN e.outcome = "ok"
              => /\ e.seen = NonBlank(dir[e.station], Len(dir[e.station]))
                 /\ ParseableKeys(e.station) \subseteq Keys(runLog[i].after)

\* lines of a file that are not blank and do not parse
BadLines(f, station_id) ==
  {n \in 1..Len(f) : ~IsBlank(f[n]) /\ ~parse_weather_line(f[n], station_id).ok}

FilesDone == {fileLog[i] : i \in 1..Len(fileLog)}

\* C7: a line that does not parse is counted once as failed, writes nothing,
\* and the loop goes on with the next line of the same file; a file read to
\* its end has counted every one of its unparseable lines.
C7_BadLineNeverAborts ==
  /\ [][(LineStep /\ ~CurrentData.ok)
          => /\ failed' = failed + 1
             /\ inserted' = inserted /\ skipped' = skipped
             /\ pending' = pending /\ records' = records
             /\ job' = "ingest" /\ fileIdx' = fileIdx
             /\ lineIdx' = lineIdx + 1]_vars
  /\ [](\A e \in FilesDone :
          e.outcome # "error"
            => e.failed = Cardinality(BadLines(dir[e.station], e.station)))

\* the first line of a file was counted as failed and the second line of the
\* same file has been inserted after it
C7_Witness ==
  /\ InFile /\ failed = 1 /\ inserted = 1 /\ lastStep = "inserted"
  /\ lineIdx = 3 /\ Cardinality(pending) = 1

RECURSIVE SumSeq(_, _)
SumSeq(q, col) == IF q = << >> THEN 0 ELSE Head(q)[col] + SumSeq(Tail(q), col)

RECURSIVE Returned(_)
\* the files of a run whose ingest_weather_file call returned its counts
Returned(q) ==
  IF q = << >> THEN << >>
  ELSE (IF Head(q).outcome = "error" THEN << >> ELSE <<Head(q)>>)
         \o Returned(Tail(q))

AggDone == {aggLog[i] : i \in 1..Len(aggLog)}

PairsOfRecords(rows) == {<<r.station_id, r.date.year>> : r \in rows}

PairsOfStats(table) == {<<t.station_id, t.year>> : t \in table}

\* C9: after an aggregator run storage holds exactly one AnnualStatistic for
\* every (station, year) that has an Observation and none for any other pair.
C9_OneStatisticPerPair ==
  \A a \in AggDone :
    /\ PairsOfStats(a.after) = PairsOfRecords(a.records)
    /\ UniqueStatistics(a.after)

Selected(rows, station_id, year) ==
  {r \in rows : r.station_id = station_id /\ r.date.year = year}

Present(rows, col) == {r \in rows : r[col] # NoneV}

\* the stored metric x is the sum of the present values of col over n * k
\* (n the number of present values for a mean, 1 for a total), and is null
\* exactly when no value is present
MetricIs(x, rows, col, mean, k) ==
  LET p == Present(rows, col)
      n == IF mean THEN Cardinality(p) ELSE 1
  IN /\ (x = NoneV) <=> (p = {})
     /\ x # NoneV => /\ x[1].den > 0
                     /\ x[1].num * n * k = SumOf(p, col) * x[1].den

\* C10: the AnnualStatistic an aggregator run stores for a (station, year)
\* holds mean(present max_temp) / 10, mean(present min_temp) / 10 and
\* sum(present precipitation) / 100; a metric is null exactly when no value
\* of it is present, and missing values do not count as zero.
C10_MetricsOfPresentValues ==
  \A a \in AggDone :
    a.outcome = "ok"
    => \A t \in a.after :
         LET sel == Selected(a.records, t.station_id, t.year)
         IN /\ MetricIs(t.avg_max_temp, sel, "max_temp", TRUE, 10)
            /\ MetricIs(t.avg_min_temp, sel, "min_temp", TRUE, 10)
            /\ MetricIs(t.total_precipitation, sel, "precipitation", FALSE, 100)

\* a run stored a pair with two Observations, one of them without min_temp:
\* the mean is taken over the one present value
C10_Witness ==
  \E a \in AggDone :
    /\ a.outcome = "ok"
    /\ \E t \in a.after :
         LET sel == Selected(a.records, t.station_id, t.year)
         IN /\ Cardinality(sel) = 2
            /\ Cardinality(Present(sel, "min_temp")) = 1
            /\ Cardinality(Present(sel, "max_temp")) = 2
            /\ t.avg_min_temp # NoneV
            /\ t.total_precipitation # NoneV

\* an AnnualStatistic without its row id
Metrics(t) ==
  [station_id |-> t.station_id, year |-> t.year,
   avg_max_temp |-> t.avg_max_temp, avg_min_temp |-> t.avg_min_temp,
   total_precipitation |-> t.total_precipitation]

Values(table) == {Metrics(t) : t \in table}

\* C11: the AnnualStatistics an aggregator run leaves are those a run over the
\* same Observations leaves on an empty table, whatever was stored before the
\* run; and a second run over unchanged Observations leaves the same
\* (station, year) rows with the same three metrics as the first.
C11_RerunNoDrift ==
  /\ \A a \in AggDone :
       Values(a.after) = Values(calculate_weather_stats(a.records, {}))
  /\ \A i \in 2..Len(aggLog) :
       aggLog[i].records = aggLog[i - 1].records
         => Values(aggLog[i].after) = Values(aggLog[i - 1].after)

\* the same for the runs that end without an error
OkRunsNoDrift ==
  \A a \in AggDone :
    a.outcome = "ok"
      => Values(a.after) = Values(calculate_weather_stats(a.records, {}))

\* C12: a step never removes or changes a committed Observation; only a
\* commit of the loader (or a caller's own insert) adds Observations, and the
\* rows it adds are the rows the loader's session had flushed; aggregator
\* steps and queries, a query that ends in a validation error included, leave
\* Observation storage as it is.
C12_ObservationsWriteOnce ==
  [][/\ records \subseteq records'
     /\ (records' # records /\ lastStep' # "direct_ok")
          => (job = "ingest" /\ records' = records \cup pending)
     /\ (job = "agg" \/ lastStep' = "query") => records' = records]_vars

\* a loader run has stored Observations and a query after it has ended in a
\* validation error
C12_Witness ==
  /\ response # NoneV /\ response[1].status = 400
  /\ lastStep = "query"
  /\ Len(runLog) = 1 /\ runLog[1].inserted > 0
  /\ records = runLog[1].after /\ records # {}

\* ------------------------------------------------- query service claims
DateParams == {"date", "start_date", "end_date"}

\* every date the request supplies is a calendar date
DatesValid(args) ==
  \A f \in DateParams : args[f] # NoneV => parse_date(args[f][1]) # NoneV

\* the Observations that satisfy every filter the request supplies
MatchingRecords(args, rows) ==
  {r \in rows :
     /\ args.station_id # NoneV => StationText(r.station_id) = args.station_id[1]
     /\ args.date # NoneV => isoformat(r.date) = args.date[1]
     /\ args.start_date # NoneV => DateNum(r.date) >= args.start_date[1][1].v
     /\ args.end_date # NoneV => DateNum(r.date) <= args.end_date[1][1].v}

\* the AnnualStatistics that satisfy every filter the request supplies
MatchingStats(args, table) ==
  {t \in table :
     /\ args.station_id # NoneV => StationText(t.station_id) = args.station_id[1]
     /\ args.year # NoneV => t.year = args.year[1]
     /\ args.start_year # NoneV => t.year >= args.start_year[1]
     /\ args.end_year # NoneV => t.year <= args.end_year[1]}

\* the reply to a request that asks the same with another page number
PageOf(r, p) ==
  LET args == [r.args EXCEPT !.page = Some(p)]
  IN IF r.endpoint = "weather" THEN WeatherList_get(args, records)
     ELSE WeatherStatsList_get(args, stats)

\* the data of pages 1..n, one after the other
RECURSIVE PagesUpTo(_, _)
PagesUpTo(r, n) ==
  IF n = 0 THEN << >> ELSE PagesUpTo(r, n - 1) \o PageOf(r, n).body.data

\* the sort key of a returned row: (date, station) or (year, station)
SortKey(r, d) ==
  IF r.endpoint = "weather" THEN <<d.date[1].v, d.station_id[1].v>>
  ELSE <<d.year, d.station_id[1].v>>

\* strictly ascending in the endpoint's order: sorted, and no row twice
Ascending(r, q) ==
  \A i, j \in 1..Len(q) :
    i < j => /\ PairLE(SortKey(r, q[i]), SortKey(r, q[j]))
             /\ SortKey(r, q[i]) # SortKey(r, q[j])

\* the ids of the stored rows the request's filters select
MatchingIds(r) ==
  IF r.endpoint = "weather" THEN {x.id : x \in MatchingRecords(r.args, records)}
  ELSE {x.id : x \in MatchingStats(r.args, stats)}

\* a reply with rows and a pagination block to a request with valid dates
Answered(r) ==
  /\ r.status = 200
  /\ r.endpoint = "weather" => DatesValid(r.args)

\* C13: for an answered request, the data of pages 1..total_pages at the
\* request's page_size, one after the other, are the rows that satisfy every
\* supplied filter, each once, in (date, station) or (year, station) order.
C13_PagesCoverResult ==
  (response # NoneV /\ Answered(response[1]))
  => LET r == response[1]
         all == PagesUpTo(r, r.body.pagination.total_pages)
     IN /\ {all[i].id : i \in 1..Len(all)} = MatchingIds(r)
        /\ Ascending(r, all)

\* the ids of the rows the handler's own query selects
QueryIds(r) ==
  IF r.endpoint = "weather" THEN {x.id : x \in weather_query(r.args, records)}
  ELSE {x.id : x \in stats_query(r.args, stats)}

\* the pages against the handler's own query: they cover what the query
\* selects, each row once and in order
PagesCoverQuery ==
  (response # NoneV /\ response[1].status = 200)
  => LET r == response[1]
         all == PagesUpTo(r, r.body.pagination.total_pages)
     IN /\ {all[i].id : i \in 1..Len(all)} = QueryIds(r)
        /\ Ascending(r, all)

\* the page and page_size the contract makes of what the caller gave
EffectivePage(args) ==
  IF args.page = NoneV \/ args.page[1] < 1 THEN 1 ELSE args.page[1]

EffectivePageSize(args) ==
  IF args.page_size = NoneV \/ args.page_size[1] < 1 THEN DEFAULT_PAGE_SIZE
  ELSE IF args.page_size[1] > MAX_PAGE_SIZE THEN MAX_PAGE_SIZE
  ELSE args.page_size[1]

Repaged(r, p, z) ==
  LET args == [r.args EXCEPT !.page = p, !.page_size = z]
  IN IF r.endpoint = "weather" THEN WeatherList_get(args, records)
     ELSE WeatherStatsList_get(args, stats)

\* n = ceil(total / size), size > 0
IsCeil(n, total, size) == n * size >= total /\ (n - 1) * size < total

\* C15: an answered request reports as total_records the number of stored
\* rows that satisfy every supplied filter, the same for every page and
\* page_size, and total_pages = ceil(total_records / effective page_size).
C15_TotalsCountMatches ==
  (response # NoneV /\ Answered(response[1]))
  => LET r == response[1]
         g == r.body.pagination
     IN /\ g.total_records = Cardinality(MatchingIds(r))
        /\ \A p \in Pages, z \in PageSizes :
             Repaged(r, p, z).body.pagination.total_records = g.total_records
        /\ IsCeil(g.total_pages, g.total_records, g.page_size)

\* the same against the rows the handler's own query selects
TotalsCountQuery ==
  (response # NoneV /\ response[1].status = 200)
  => LET r == response[1]
         g == r.body.pagination
     IN /\ g.total_records = Cardinality(QueryIds(r))
        /\ \A p \in Pages, z \in PageSizes :
             Repaged(r, p, z).body.pagination.total_records = g.total_records
        /\ IsCeil(g.total_pages, g.total_records, g.page_size)

\* every row the request's filters let through, on one page
AllRows(r) == Repaged(r, NoneV, Some(MAX_PAGE_SIZE)).body.data

\* what a reply shows of stored rows
Shown(r, rows) ==
  IF r.endpoint = "weather" THEN {record_to_dict(x) : x \in rows}
  ELSE {stats_to_dict(x) : x \in rows}

RowSet(q) == {q[i] : i \in 1..Len(q)}

\* C16: an answered Observation request returns exactly the stored rows with
\* station = station_id, date = date, date >= start_date and date <= end_date,
\* for each of these the request supplies, whatever the supplied value is.
C16_ObservationFilters ==
  (response # NoneV /\ response[1].endpoint = "weather" /\ Answered(response[1]))
  => RowSet(AllRows(response[1]))
       = Shown(response[1], MatchingRecords(response[1].args, records))

\* no supplied filter value is the empty string or 0
NoFalsyValue(r) ==
  \A f \in DOMAIN r.args \ {"page", "page_size"} :
    r.args[f] # NoneV
      => r.args[f][1] # (IF f \in {"year", "start_year", "end_year"} THEN 0 ELSE << >>)

\* both queries for requests without a falsy filter value
FiltersOfTruthyValues ==
  (response # NoneV /\ Answered(response[1]) /\ NoFalsyValue(response[1]))
  => RowSet(AllRows(response[1]))
       = Shown(response[1],
               IF response[1].endpoint = "weather"
               THEN MatchingRecords(response[1].args, records)
               ELSE MatchingStats(response[1].args, stats))

\* C17: an AnnualStatistic request returns exactly the stored rows with
\* station = station_id, year = year, year >= start_year and year <= end_year,
\* for each of these the request supplies, whatever the integer supplied is
\* (here: requests whose station_id is absent or a station name).
C17_StatisticFilters ==
  (response # NoneV /\ response[1].endpoint = "stats"
     /\ response[1].args.station_id \in {NoneV, Some(StationText(187))})
  => RowSet(AllRows(response[1]))
       = Shown(response[1], MatchingStats(response[1].args, stats))

\* C18: an Observation request in which a supplied date, start_date or
\* end_date is no calendar date is answered 400 with the error message alone,
\* no rows and no pagination block, and its query is not sent to storage.
C18_InvalidDateRejected ==
  (response # NoneV /\ response[1].endpoint = "weather"
     /\ ~DatesValid(response[1].args))
  => /\ response[1].status = 400
     /\ DOMAIN response[1].body = {"error"}
     /\ ~response[1].executed

\* the same for requests whose supplied dates are not empty
NonEmptyInvalidDateRejected ==
  (response # NoneV /\ response[1].endpoint = "weather"
     /\ ~DatesValid(response[1].args)
     /\ \A f \in DateParams : response[1].args[f] # Some(<< >>))
  => /\ response[1].status = 400
     /\ DOMAIN response[1].body = {"error"}
     /\ ~response[1].executed

\* ---------------------------------------------------------- parser claims
\* what the contract makes of the integer of a numeric field
Expect(v) == IF v = MISSING THEN NoneV ELSE Some(v)

\* C19: for a line of a valid date and three integers, tab-separated, bare or
\* padded with blanks, the parser returns for each numeric field the integer
\* it holds, null for -9999 and for nothing else, whatever the other two
\* fields hold and however large the integer; the station is passed through
\* and changes nothing else of the record.
C19_NumericFieldsKept ==
  parsed # NoneV
  => LET p == parsed[1]
         d == Num(19850101)
     IN /\ \A a, b, c \in ParseValues :
             p.line \in {TabLine(d, Num(a), Num(b), Num(c)),
                         <<SP, d, TAB, SP, Num(a), SP, TAB, Num(b), TAB, SP, SP,
                           Num(c), SP, TAB>>}
               => /\ p.result.ok
                  /\ p.result.max_temp = Expect(a)
                  /\ p.result.min_temp = Expect(b)
                  /\ p.result.precipitation = Expect(c)
                  /\ p.result.station_id = p.station_id
                  /\ p.result.date = [year |-> 1985, month |-> 1, day |-> 1]
        /\ \A st \in Stations :
             LET q == parse_weather_line(p.line, st)
             IN IF p.result.ok THEN q = [p.result EXCEPT !.station_id = st]
                ELSE q = p.result

\* a line with the sentinel in one field, its neighbours -9998 and -10000 in
\* the others, has been parsed
C19_Witness ==
  /\ parsed # NoneV
  /\ parsed[1].line = TabLine(Num(19850101), Num(MISSING + 1), Num(MISSING),
                              Num(MISSING - 1))
  /\ parsed[1].result.ok
  /\ parsed[1].result.min_temp = NoneV
  /\ parsed[1].result.precipitation = Some(MISSING - 1)

\* the date field is a calendar date in digits, with nothing around it
DateFieldParses(f) == Len(f) = 1 /\ f[1].k = "num" /\ Strptime(f) # NoneV

\* the value field is an integer literal, blanks around it aside
ValueFieldParses(f) == Len(Strip(f)) = 1 /\ Strip(f)[1].k = "num"

FieldsParse(parts) ==
  /\ DateFieldParses(parts[1])
  /\ \A i \in 2..4 : ValueFieldParses(parts[i])

\* C20 as claimed: the parser accepts a line exactly when its tab-or-blank
\* delimited fields are four and each parses, and fails with the field count
\* found otherwise.
C20_WhitespaceDelimited ==
  parsed # NoneV
  => LET p == parsed[1]
         parts == SplitWs(p.line)
     IN /\ Len(parts) = 4 => (p.result.ok <=> FieldsParse(parts))
        /\ Len(parts) # 4 => (~p.result.ok /\ p.result.err = Len(parts))

TabCount(s) == Cardinality({i \in 1..Len(s) : s[i] = TAB})

\* the k-th of the fields that the tabs of s delimit
TabField(s, k) ==
  LET tabs == SortedSeq({i \in 1..Len(s) : s[i] = TAB})
      from == IF k = 1 THEN 1 ELSE tabs[k - 1] + 1
      to == IF k = Len(tabs) + 1 THEN Len(s) ELSE tabs[k] - 1
  IN SubSeq(s, from, to)

\* C20 as amended: with the whitespace around the line trimmed, the fields are
\* what the tab characters delimit (blanks delimit nothing); the parser accepts
\* the line exactly when they are four and each parses, the date as it stands
\* and the three numbers with the blanks around them trimmed; with any other
\* number of fields it fails with an error that reports that number.
C20_TabDelimited ==
  parsed # NoneV
  => LET p == parsed[1]
         t == Strip(p.line)
         n == TabCount(t) + 1
     IN /\ n = 4 => (p.result.ok <=> FieldsParse([k \in 1..4 |-> TabField(t, k)]))
        /\ n # 4 => (~p.result.ok /\ p.result.err = n)

\* a line of a date and three integers separated by blanks has failed as a
\* line of one field
C20_Witness ==
  /\ parsed # NoneV
  /\ parsed[1].line = <<Num(19850101), SP, Num(5), SP, Num(0 - 5), SP, Num(0)>>
  /\ ~parsed[1].result.ok /\ parsed[1].result.err = 1

\* the displayed value d of the stored tenths value v: null for null, and
\* otherwise the number whose tenfold is v
DisplayOf(v, d) ==
  IF IsNone(v) THEN IsNone(d)
  ELSE ~IsNone(d) /\ d[1].den > 0 /\ 10 * d[1].num = v[1] * d[1].den

\* C21: every Observation an answered request displays is a stored one whose
\* max_temp, min_temp and precipitation are each shown as the stored tenths
\* value divided by 10 (ten times the shown value is the stored one), a stored
\* null as null and a stored 0 as 0.
C21_DisplayConversion ==
  (response # NoneV /\ response[1].endpoint = "weather" /\ response[1].status = 200)
  => \A i \in 1..Len(response[1].body.data) :
       LET d == response[1].body.data[i]
       IN \E r \in records :
            /\ r.id = d.id
            /\ DisplayOf(r.max_temp, d.max_temp)
            /\ DisplayOf(r.min_temp, d.min_temp)
            /\ DisplayOf(r.precipitation, d.precipitation)

\* a reply that displays LineA's values (-22, -128, 94) as -2.2, -12.8 and 9.4
\* and LineNext's 0 as 0 and its missing precipitation as null
C21_Witness ==
  /\ response # NoneV /\ response[1].endpoint = "weather"
  /\ response[1].status = 200
  /\ \E i, j \in 1..Len(response[1].body.data) :
       LET a == response[1].body.data[i]
           n == response[1].body.data[j]
       IN /\ a.max_temp = Some([num |-> 0 - 11, den |-> 5])
          /\ a.min_temp = Some([num |-> 0 - 64, den |-> 5])
          /\ a.precipitation = Some([num |-> 47, den |-> 5])
          /\ n.min_temp = Some([num |-> 0, den |-> 1])
          /\ n.precipitation = NoneV

\* the stored row of table for a pair holds the metrics computed from rows
Overwritten(table, t, rows) ==
  \E u \in table :
    /\ u.id = t.id
    /\ Metrics(u) = [station_id |-> t.station_id, year |-> t.year]
                      @@ compute_stats(rows, t.station_id, t.year)

\* what C22 says of one aggregator run a
UpsertCounts(a) ==
  LET pairs == PairsOfRecords(a.records)
      old == pairs \cap PairsOfStats(a.before)
  IN /\ Len(a.pairs) = Cardinality(pairs)
     /\ {a.pairs[i] : i \in 1..Len(a.pairs)} = pairs
     /\ a.updated = Cardinality(old)
     /\ a.inserted = Cardinality(pairs \ old)
     /\ a.inserted + a.updated = Cardinality(pairs)
     /\ \A t \in a.before :
          <<t.station_id, t.year>> \in pairs => Overwritten(a.after, t, a.records)
     /\ pairs \ old \subseteq PairsOfStats(a.after)
     /\ UniqueStatistics(a.after)
     /\ Cardinality(a.after) = Cardinality(a.before) + a.inserted

\* C22: an aggregator run takes each (station, year) of the Observations once
\* and counts it as updated when a row for the pair was stored before the run
\* (the row then holds the new metrics and stays the only one of its pair) and
\* as inserted otherwise (a row is added); inserted + updated is the number of
\* pairs; and the run that follows a run over the same Observations ends with
\* inserted = 0.
C22_UpsertCounts ==
  /\ \A a \in AggDone : UpsertCounts(a)
  /\ \A i \in 1..(Len(aggLog) - 1) :
       aggLog[i + 1].records = aggLog[i].records
         => aggLog[i + 1].outcome = "ok" /\ aggLog[i + 1].inserted = 0

\* the same of the runs that end without error, and of the run that follows
\* such a run
OkRunsUpsertCounts ==
  /\ \A a \in AggDone : a.outcome = "ok" => UpsertCounts(a)
  /\ \A i \in 1..(Len(aggLog) - 1) :
       (aggLog[i].outcome = "ok" /\ aggLog[i + 1].records = aggLog[i].records)
         => aggLog[i + 1].outcome = "ok" /\ aggLog[i + 1].inserted = 0

\* a run that updates the stored (72, 1985) row with changed metrics and
\* inserts a row beside it, and a second run over unchanged Observations
UpsertBothBranches ==
  \E a \in AggDone :
    /\ a.outcome = "ok" /\ a.updated = 1 /\ a.inserted >= 1
    /\ \E t \in a.before : \A u \in a.after : Metrics(u) # Metrics(t)

UpsertSecondRun ==
  /\ Len(aggLog) = 2 /\ aggLog[2].records = aggLog[1].records
  /\ aggLog[2].updated = 1 /\ aggLog[2].inserted = 0

SessionOfInvalidQuery ==
  /\ session.pc = "released" /\ ~session.raised
  /\ response # NoneV /\ response[1].status = 400
  /\ session.log = <<"acquire", "commit", "close">>

\* an Observation without its row id
Observation(r) ==
  [station_id |-> r.station_id, date |-> r.date, max_temp |-> r.max_temp,
   min_temp |-> r.min_temp, precipitation |-> r.precipitation]

Observations(rows) == {Observation(r) : r \in rows}

BothDone == \A i \in Loaders : loaders[i].pc = "done"

\* how far run i has come: every step of it moves it on
Position(i) ==
  LET me == loaders[i]
  IN IF me.pc = "idle" THEN 0
     ELSE IF me.pc = "done" THEN (Len(weather_files) + 2) * (MaxFileLines + 2)
     ELSE me.fileIdx * (MaxFileLines + 2) + me.lineIdx

\* what a single run over the directory leaves in an empty database
SingleRun == ingest_all_weather_data(dir, weather_files, {})

\* every step moves one run on and the other not back, so both come to
\* their end; no step leaves a run with an exception
RunsGoOn ==
  [][/\ \A i \in Loaders : Position(i)' >= Position(i)
     /\ \E i \in Loaders : Position(i)' > Position(i)]_vars

\* C24: with two loader runs over one directory, interleaved in any way,
\* both runs go on to their end, storage never holds two Observations of one
\* (station, date), and when both runs have ended storage holds the
\* Observations a single run over the directory leaves.
C24_InterleavedRuns ==
  /\ RunsGoOn
  /\ [](\A a, b \in records : Key(a) = Key(b) => a = b)
  /\ [](BothDone => Observations(records) = Observations(SingleRun))

\* no file holds two records of one date
DistinctDates ==
  \A st \in Stations :
    \A j, k \in 1..Len(dir[st]) :
      (j # k /\ parse_weather_line(dir[st][j], st).ok
             /\ parse_weather_line(dir[st][k], st).ok)
        => Key(parse_weather_line(dir[st][j], st)) # Key(parse_weather_line(dir[st][k], st))

\* the same for directories in which no file holds a date twice, so that no
\* run rolls back rows it has flushed
InterleavedRunsOfDistinctDates ==
  /\ RunsGoOn
  /\ [](\A a, b \in records : Key(a) = Key(b) => a = b)
  /\ []((BothDone /\ DistinctDates) => Observations(records) = Observations(SingleRun))

\* both runs have given 72.txt up, one at its first line and one past a
\* rollback, and a row a single run stores is missing at the end
InterleavedRunsLoseRow ==
  /\ BothDone
  /\ \E r \in SingleRun : Observation(r) \notin Observations(records)

====
